---- MODULE Spec2Model ----
(***************************************************************************)
(* A model of the RAG scripts:                                             *)
(*   upload_to_pinecone.py  : chunk_text, upload_documents,                *)
(*                            upload_from_file                             *)
(*   aws-chat.py, aws-chat-rag.py, aws-chat-rag-milvus.py : the three      *)
(*                            chat scripts and their retrieval functions   *)
(*   migrate_to_milvus.py   : MilvusManager, migrate_from_pinecone         *)
(* Texts are sequences of one-character strings.  Python indices are       *)
(* 0-based; the sequences here are 1-based, so text[a:b] is                *)
(* SubSeq(text, a+1, b) after Python's normalisation of a and b.           *)
(***************************************************************************)
EXTENDS Integers, Sequences, FiniteSets, TLC

VARIABLES
    text,          \* chunk_text: parameter text
    chunk_size,    \* chunk_text: parameter chunk_size
    overlap,       \* chunk_text: parameter overlap
    start,         \* chunk_text: local start
    chunks,        \* chunk_text: local chunks (the list returned)
    spans,         \* chunk_text: the (start, end) of every window appended
    pc,            \* chunk_text: "entry", "loop", "done"
    request,           \* what the caller asks for: documents or a file
    documents,         \* upload_documents: parameter documents
    doc_i,             \* upload_documents: documents indexed so far (line 44)
    vectors_to_upload, \* upload_documents: local vectors_to_upload
    origin,            \* per queued vector: its document, chunk and chunk count
    batch_i,           \* upload_documents: local i of the batch loop (line 71)
    attempts,          \* the batches sent, with what lines 77/79 printed
    summary,           \* the count line 81 printed, NoSummary before it
    index_store,       \* the records of the Pinecone index, by id
    runs,              \* the calls finished so far
    upc,               \* "idle", "docs", "batches"
    script,        \* which chat script runs: "chat", "rag", "milvus"
    argv,          \* sys.argv
    user_prompt,   \* the chat scripts' user_prompt
    cpc,           \* the chat script's position
    response,      \* aws-chat-rag.py: what ask_ai returned (line 163)
    tool_i,        \* aws-chat-rag.py: tool calls handled so far (line 168)
    top_k,         \* top_k of the latest retrieve_relevant_docs call
    matches,       \* what the vector store answered to the latest search
    relevant_docs, \* what retrieve_relevant_docs returned
    connected,     \* MilvusRAG.connected
    conn_open,     \* the "default" connection to Milvus is open
    events,        \* requests sent, searches made and lines printed, in order
    exit_code,     \* the process's exit status, NotExited while it runs
    export,        \* migrate_from_pinecone: data loaded from the export file
    collection,    \* the Milvus collection nimonik_rag: its rows, or absent
    handle,        \* MilvusManager.collection is set
    mconn,         \* migrate_to_milvus.py: the "default" connection is open
    mpc            \* migrate_from_pinecone's position

cvars == <<text, chunk_size, overlap, start, chunks, spans, pc>>

uvars == <<request, documents, doc_i, vectors_to_upload, origin, batch_i,
           attempts, summary, index_store, runs, upc>>

chatvars == <<script, argv, user_prompt, cpc, response, tool_i, top_k,
              matches, relevant_docs, connected, conn_open, events,
              exit_code>>

migvars == <<export, collection, handle, mconn, mpc>>

vars == <<text, chunk_size, overlap, start, chunks, spans, pc,
          request, documents, doc_i, vectors_to_upload, origin, batch_i,
          attempts, summary, index_store, runs, upc,
          script, argv, user_prompt, cpc, response, tool_i, top_k,
          matches, relevant_docs, connected, conn_open, events, exit_code,
          export, collection, handle, mconn, mpc>>

----------------------------------------------------------------------------
(* Bounds of the exhaustive exploration of chunk_text.                      *)

MaxTextLen == 6
MaxChunkSize == 5

Alphabet == {"a", ".", " ", "\n"}

Texts == UNION {[1..k -> Alphabet] : k \in 0..MaxTextLen}

\* every loop iteration appends one chunk; a run that does not leave the
\* loop is cut after IterCap iterations
IterCap == 2 * MaxTextLen + 2

----------------------------------------------------------------------------
(* Python string primitives.                                                *)

Whitespace == {" ", "\n"}

PyMax(a, b) == IF a >= b THEN a ELSE b

\* the normalisation Python applies to a slice bound i on a string of length n
PyNorm(i, n) ==
    IF i < 0 THEN (IF i + n < 0 THEN 0 ELSE i + n)
    ELSE (IF i > n THEN n ELSE i)

\* s[a:b]
Slice(s, a, b) == SubSeq(s, PyNorm(a, Len(s)) + 1, PyNorm(b, Len(s)))

\* s.rfind(c): the 0-based index of the last c in s, -1 when there is none
Rfind(s, c) ==
    LET S == {i \in 1..Len(s) : s[i] = c}
    IN  IF S = {} THEN -1 ELSE (CHOOSE i \in S : \A j \in S : j <= i) - 1

RECURSIVE LeadingWs(_, _)
LeadingWs(s, i) ==
    IF i > Len(s) \/ s[i] \notin Whitespace THEN i - 1 ELSE LeadingWs(s, i + 1)

RECURSIVE TrailingWs(_, _)
TrailingWs(s, i) ==
    IF i < 1 \/ s[i] \notin Whitespace THEN Len(s) - i ELSE TrailingWs(s, i - 1)

\* s.strip()
Strip(s) ==
    LET l == LeadingWs(s, 1)
    IN  IF l = Len(s) THEN <<>>
        ELSE SubSeq(s, l + 1, Len(s) - TrailingWs(s, Len(s)))

----------------------------------------------------------------------------
(* chunk_text, upload_to_pinecone.py lines 16-39.                           *)

\* line 17: the early return is taken
IsShort(t, cs) == Len(t) <= cs

\* line 18: what the early return returns
ShortResult(t) == <<t>>

\* lines 28-30
BreakPoint(chunk) == PyMax(Rfind(chunk, "."), Rfind(chunk, "\n"))

\* line 32
SnapCondition(break_point, st, cs) == break_point > st + cs \div 2

\* line 37 with a fixed stride from the previous start, whatever the end
NextStartFixedStride(st, en, cs, ov) == st + cs - ov

\* line 37 with the overlap applied one position late
NextStartLate(st, en, cs, ov) == en - ov + 1

\* line 37
NextStart(st, en, cs, ov) == en - ov

\* lines 24-36: one window.  end is the window's end, chunk the slice cut
\* (before strip), snapped whether lines 33-34 ran
Window(t, cs, ov, st) ==
    LET end0   == st + cs
        chunk0 == Slice(t, st, end0)
        bp     == BreakPoint(chunk0)
        snap   == end0 < Len(t) /\ SnapCondition(bp, st, cs)
    IN  [chunk   |-> IF snap THEN Slice(chunk0, 0, bp + 1) ELSE chunk0,
         end     |-> IF snap THEN st + bp + 1 ELSE end0,
         snapped |-> snap]

\* lines 17-18
ChunkShort ==
    /\ pc = "entry"
    /\ IsShort(text, chunk_size)
    /\ chunks' = ShortResult(text)
    /\ pc' = "done"
    /\ UNCHANGED <<text, chunk_size, overlap, start, spans>>
    /\ UNCHANGED uvars
    /\ UNCHANGED <<chatvars, migvars>>

\* lines 20-21
ChunkEnter ==
    /\ pc = "entry"
    /\ ~IsShort(text, chunk_size)
    /\ chunks' = <<>>
    /\ start' = 0
    /\ pc' = "loop"
    /\ UNCHANGED <<text, chunk_size, overlap, spans>>
    /\ UNCHANGED uvars
    /\ UNCHANGED <<chatvars, migvars>>

\* lines 23-37: one iteration of the loop
ChunkIterate ==
    /\ pc = "loop"
    /\ start < Len(text)
    /\ Len(chunks) < IterCap
    /\ LET w == Window(text, chunk_size, overlap, start)
       IN  /\ chunks' = Append(chunks, Strip(w.chunk))
           /\ spans' = Append(spans, [start |-> start, end |-> w.end,
                                      raw |-> w.chunk,
                                      snapped |-> w.snapped])
           /\ start' = NextStart(start, w.end, chunk_size, overlap)
    /\ UNCHANGED <<text, chunk_size, overlap, pc>>
    /\ UNCHANGED uvars
    /\ UNCHANGED <<chatvars, migvars>>

\* lines 23, 39: the loop condition fails and chunks is returned
ChunkReturn ==
    /\ pc = "loop"
    /\ ~(start < Len(text))
    /\ pc' = "done"
    /\ UNCHANGED <<text, chunk_size, overlap, start, chunks, spans>>
    /\ UNCHANGED uvars
    /\ UNCHANGED <<chatvars, migvars>>

ChunkNext == ChunkShort \/ ChunkEnter \/ ChunkIterate \/ ChunkReturn

----------------------------------------------------------------------------
(* chunk_text as a function: the same loop, run to its end.                 *)

RECURSIVE ChunkLoop(_, _, _, _, _)
ChunkLoop(t, cs, ov, st, acc) ==
    IF st < Len(t)
    THEN LET w == Window(t, cs, ov, st)
         IN  ChunkLoop(t, cs, ov, NextStart(st, w.end, cs, ov),
                       Append(acc, Strip(w.chunk)))
    ELSE acc

chunk_text(t, cs, ov) ==
    IF IsShort(t, cs) THEN ShortResult(t) ELSE ChunkLoop(t, cs, ov, 0, <<>>)

----------------------------------------------------------------------------
(* upload_documents and upload_from_file, upload_to_pinecone.py 41-104.     *)

DefaultChunkSize == 1000
DefaultOverlap == 200
batch_size == 100

\* bounds of the inputs
MaxDocs == 2
MaxRuns == 2
MaxBatches == 2

NoSummary == -1

\* the values str(uuid.uuid4()) may return
UUIDs == {"uuid-1", "uuid-2"}

PyMin(a, b) == IF a <= b THEN a ELSE b

\* dict.get(key, default)
Get(d, key, default) == IF key \in DOMAIN d THEN d[key] ELSE default

\* dict.update(other): the keys of other are added or overwritten
Update(d, other) ==
    [k \in DOMAIN d \cup DOMAIN other |->
        IF k \in DOMAIN other THEN other[k] ELSE d[k]]

\* embedding_model.encode(chunk).tolist(): a function of the chunk alone
Encode(chunk) ==
    <<Len(chunk), Cardinality({i \in 1..Len(chunk) : chunk[i] = "."})>>

\* line 51 without the chunk index
VectorIdNoIndex(doc, i, uuid) == Get(doc, "id", uuid) \o "_chunk"

\* line 51
VectorId(doc, i, uuid) == Get(doc, "id", uuid) \o "_chunk_" \o ToString(i)

\* lines 53-59 with total_chunks counted from the chunk index
DefaultMetadataCountsIndex(doc, i, chunk, n) ==
    [text         |-> chunk,
     title        |-> Get(doc, "title", "Untitled"),
     source       |-> Get(doc, "source", "Unknown"),
     chunk_index  |-> i,
     total_chunks |-> i + 1]

\* lines 53-59
DefaultMetadata(doc, i, chunk, n) ==
    [text         |-> chunk,
     title        |-> Get(doc, "title", "Untitled"),
     source       |-> Get(doc, "source", "Unknown"),
     chunk_index  |-> i,
     total_chunks |-> n]

\* lines 61-62
Metadata(doc, i, chunk, n) ==
    IF "metadata" \in DOMAIN doc
    THEN Update(DefaultMetadata(doc, i, chunk, n), doc.metadata)
    ELSE DefaultMetadata(doc, i, chunk, n)

\* lines 47-68 for one document: the vectors appended for its chunks cl,
\* us[k] being what uuid4 returned for chunk k
DocVectors(doc, cl, us) ==
    [k \in 1..Len(cl) |->
        [id       |-> VectorId(doc, k - 1, us[k]),
         values   |-> Encode(cl[k]),
         metadata |-> Metadata(doc, k - 1, cl[k], Len(cl))]]

\* line 72
Batch(vs, i) == Slice(vs, i, i + batch_size)

\* index.upsert(vectors=batch): insert or replace by id, the later of two
\* vectors with one id winning
Upsert(store, batch) ==
    LET ids == {batch[k].id : k \in 1..Len(batch)}
        last(id) == CHOOSE k \in 1..Len(batch) :
                        /\ batch[k].id = id
                        /\ \A j \in 1..Len(batch) : batch[j].id = id => j <= k
    IN  [id \in DOMAIN store \cup ids |->
            IF id \in ids
            THEN [values |-> batch[last(id)].values,
                  metadata |-> batch[last(id)].metadata]
            ELSE store[id]]

\* lines 78-79, where a failed batch ends the loop
NextBatchAbort(i, n) == n

\* lines 71, 78-79: the except clause falls through to the next batch
NextBatch(i, n) == i + batch_size

\* the file system: readable paths and their contents
ShortText == <<" ", "a", ".", "\n">>

\* two chunks, the first one snapped at the '.' at index 3*chunk_size/4
SnapText ==
    [k \in 1..(DefaultChunkSize + DefaultOverlap) |->
        IF k = 3 * (DefaultChunkSize \div 4) + 1 THEN "." ELSE "a"]

\* three chunks, none snapped, the second starting with whitespace
LongText ==
    [k \in 1..(2 * DefaultChunkSize - DefaultOverlap + 1) |->
        IF k = DefaultChunkSize - DefaultOverlap + 1 THEN " " ELSE "a"]

Paths == {[dir |-> "docs/", name |-> "short.txt"],
          [dir |-> "docs/", name |-> "long.txt"],
          [dir |-> "docs/", name |-> "missing.txt"]}

Readable(path) == path.name # "missing.txt"

Contents(path) == IF path.name = "long.txt" THEN LongText ELSE ShortText

\* os.path.basename(file_path)
Basename(path) == path.name

PathStr(path) == path.dir \o path.name

\* the documents callers pass
DocPool ==
    {[id |-> "a", title |-> "A", source |-> "S", text |-> ShortText],
     [id |-> "a_chunk_0", text |-> ShortText],
     [id |-> "b", title |-> "B", text |-> SnapText,
      metadata |-> [author |-> "y"]],
     [title |-> "U", text |-> ShortText],
     [id |-> "c", text |-> LongText,
      metadata |-> [total_chunks |-> 7, chunk_index |-> 9]]}

SmallCorpora == UNION {[1..n -> DocPool] : n \in 0..MaxDocs}

\* n one-chunk documents with ids d1, d2, ...
BigCorpus(n) == [k \in 1..n |-> [id |-> "d" \o ToString(k), text |-> <<"a">>]]

BigCorpora ==
    {BigCorpus(batch_size)}
        \cup {BigCorpus(b * batch_size + 1) : b \in 1..MaxBatches}

Requests ==
    {[kind |-> "documents", docs |-> c] : c \in SmallCorpora \cup BigCorpora}
        \cup {[kind |-> "file", path |-> p, title |-> t, source |-> src] :
                p \in Paths, t \in {"", "T"}, src \in {"", "S"}}

\* entering upload_documents (line 42)
Enter(docs) ==
    /\ documents' = docs
    /\ doc_i' = 0
    /\ vectors_to_upload' = <<>>
    /\ origin' = <<>>
    /\ batch_i' = 0
    /\ attempts' = <<>>
    /\ summary' = NoSummary
    /\ upc' = "docs"

\* line 173 and any other caller: upload_documents(documents)
CallUploadDocuments ==
    /\ upc = "idle"
    /\ Len(runs) < MaxRuns
    /\ request.kind = "documents"
    /\ Enter(request.docs)
    /\ UNCHANGED <<request, index_store, runs>>
    /\ UNCHANGED cvars
    /\ UNCHANGED <<chatvars, migvars>>

\* lines 83-101: upload_from_file reads the file and uploads one document
UploadFromFile ==
    /\ upc = "idle"
    /\ Len(runs) < MaxRuns
    /\ request.kind = "file"
    /\ Readable(request.path)
    /\ \E uuid \in UUIDs :
         Enter(<<[id     |-> uuid,
                  title  |-> IF request.title = ""
                             THEN Basename(request.path) ELSE request.title,
                  source |-> IF request.source = ""
                             THEN PathStr(request.path) ELSE request.source,
                  text   |-> Contents(request.path)]>>)
    /\ UNCHANGED <<request, index_store, runs>>
    /\ UNCHANGED cvars
    /\ UNCHANGED <<chatvars, migvars>>

\* lines 84-86, 103-104: open() raises and the error is printed
UploadFromFileFails ==
    /\ upc = "idle"
    /\ Len(runs) < MaxRuns
    /\ request.kind = "file"
    /\ ~Readable(request.path)
    /\ runs' = Append(runs, [ids |-> {}, read_error |-> TRUE,
                             all_ok |-> FALSE,
                             stored |-> Cardinality(DOMAIN index_store)])
    /\ UNCHANGED <<request, documents, doc_i, vectors_to_upload, origin,
                   batch_i, attempts, summary, index_store, upc>>
    /\ UNCHANGED cvars
    /\ UNCHANGED <<chatvars, migvars>>

\* lines 44-68: one document is chunked and its vectors are queued
IndexDocument ==
    /\ upc = "docs"
    /\ doc_i < Len(documents)
    /\ LET doc == documents[doc_i + 1]
           cl  == chunk_text(doc.text, DefaultChunkSize, DefaultOverlap)
       IN  \E us \in [1..Len(cl) -> IF "id" \in DOMAIN doc
                                    THEN {"unused"} ELSE UUIDs] :
             /\ vectors_to_upload' =
                    vectors_to_upload \o DocVectors(doc, cl, us)
             /\ origin' = origin \o
                    [k \in 1..Len(cl) |->
                        [doc |-> doc_i + 1, chunk |-> k - 1,
                         nchunks |-> Len(cl)]]
    /\ doc_i' = doc_i + 1
    /\ UNCHANGED <<request, documents, batch_i, attempts, summary,
                   index_store, runs, upc>>
    /\ UNCHANGED cvars
    /\ UNCHANGED <<chatvars, migvars>>

\* lines 70-71: the document loop is over, the batch loop starts
StartBatches ==
    /\ upc = "docs"
    /\ doc_i = Len(documents)
    /\ batch_i' = 0
    /\ upc' = "batches"
    /\ UNCHANGED <<request, documents, doc_i, vectors_to_upload, origin,
                   attempts, summary, index_store, runs>>
    /\ UNCHANGED cvars
    /\ UNCHANGED <<chatvars, migvars>>

\* lines 72-77: the upsert of one batch succeeds
BatchSucceeds ==
    /\ upc = "batches"
    /\ batch_i < Len(vectors_to_upload)
    /\ LET batch == Batch(vectors_to_upload, batch_i)
       IN  /\ index_store' = Upsert(index_store, batch)
           /\ attempts' = Append(attempts,
                  [first |-> batch_i, size |-> Len(batch),
                   ids |-> [k \in 1..Len(batch) |-> batch[k].id],
                   ok |-> TRUE])
    /\ batch_i' = batch_i + batch_size
    /\ UNCHANGED <<request, documents, doc_i, vectors_to_upload, origin,
                   summary, runs, upc>>
    /\ UNCHANGED cvars
    /\ UNCHANGED <<chatvars, migvars>>

\* lines 72-76, 78-79: the upsert of one batch raises
BatchFails ==
    /\ upc = "batches"
    /\ batch_i < Len(vectors_to_upload)
    /\ LET batch == Batch(vectors_to_upload, batch_i)
       IN  attempts' = Append(attempts,
               [first |-> batch_i, size |-> Len(batch),
                ids |-> [k \in 1..Len(batch) |-> batch[k].id],
                ok |-> FALSE])
    /\ batch_i' = NextBatch(batch_i, Len(vectors_to_upload))
    /\ UNCHANGED <<request, documents, doc_i, vectors_to_upload, origin,
                   summary, index_store, runs, upc>>
    /\ UNCHANGED cvars
    /\ UNCHANGED <<chatvars, migvars>>

\* line 81: the summary is printed and upload_documents returns
Summarise ==
    /\ upc = "batches"
    /\ ~(batch_i < Len(vectors_to_upload))
    /\ summary' = Len(vectors_to_upload)
    /\ runs' = Append(runs,
           [ids |-> {vectors_to_upload[k].id :
                        k \in 1..Len(vectors_to_upload)},
            read_error |-> FALSE,
            all_ok |-> \A k \in 1..Len(attempts) : attempts[k].ok,
            stored |-> Cardinality(DOMAIN index_store)])
    /\ upc' = "idle"
    /\ UNCHANGED <<request, documents, doc_i, vectors_to_upload, origin,
                   batch_i, attempts, index_store>>
    /\ UNCHANGED cvars
    /\ UNCHANGED <<chatvars, migvars>>

UploadNext ==
    \/ CallUploadDocuments
    \/ UploadFromFile
    \/ UploadFromFileFails
    \/ IndexDocument
    \/ StartBatches
    \/ BatchSucceeds
    \/ BatchFails
    \/ Summarise

\* no call of upload_documents is under way and the index is empty
UploadIdle ==
    /\ documents = <<>>
    /\ doc_i = 0
    /\ vectors_to_upload = <<>>
    /\ origin = <<>>
    /\ batch_i = 0
    /\ attempts = <<>>
    /\ summary = NoSummary
    /\ index_store = <<>>
    /\ runs = <<>>
    /\ upc = "idle"

\* no call of chunk_text is stepped through
ChunkIdle ==
    /\ text = <<>>
    /\ chunk_size = DefaultChunkSize
    /\ overlap = DefaultOverlap
    /\ start = 0
    /\ chunks = <<>>
    /\ spans = <<>>
    /\ pc = "done"

NotExited == -1

\* no chat script runs
ChatIdle ==
    /\ script = "none"
    /\ argv = <<>>
    /\ user_prompt = ""
    /\ cpc = "exit"
    /\ response = <<>>
    /\ tool_i = 0
    /\ top_k = 0
    /\ matches = <<>>
    /\ relevant_docs = <<>>
    /\ connected = FALSE
    /\ conn_open = FALSE
    /\ events = <<>>
    /\ exit_code = NotExited

\* no migration runs
MigrateIdle ==
    /\ export = <<>>
    /\ collection = [exists |-> FALSE, rows |-> <<>>]
    /\ handle = FALSE
    /\ mconn = FALSE
    /\ mpc = "exit"

UploadInit ==
    /\ request \in Requests
    /\ UploadIdle
    /\ ChunkIdle
    /\ ChatIdle
    /\ MigrateIdle

SpecUpload == UploadInit /\ [][UploadNext]_vars

\* chunk_text called with any text and any configuration with
\* chunk_size > 0 and 0 <= overlap < chunk_size
ChunkInit ==
    /\ text \in Texts
    /\ chunk_size \in 1..MaxChunkSize
    /\ overlap \in 0..(chunk_size - 1)
    /\ start = 0
    /\ chunks = <<>>
    /\ spans = <<>>
    /\ pc = "entry"
    /\ request = [kind |-> "none"]
    /\ UploadIdle
    /\ ChatIdle
    /\ MigrateIdle

SpecChunk == ChunkInit /\ [][ChunkNext]_vars

----------------------------------------------------------------------------
(* Properties of chunk_text.                                                *)

IsPrefix(p, s) == Len(p) <= Len(s) /\ SubSeq(s, 1, Len(p)) = p

DropHead(s, n) == SubSeq(s, n + 1, Len(s))

\* Is there a way to drop from each of cs[k..] a head that is a tail of its
\* predecessor prev so that what is left concatenates to rest?
RECURSIVE Rebuilds(_, _, _, _)
Rebuilds(cs, k, prev, rest) ==
    IF k > Len(cs) THEN rest = <<>>
    ELSE \E d \in 0..Len(cs[k]) :
            /\ k = 1 => d = 0
            /\ d <= Len(prev)
            /\ SubSeq(cs[k], 1, d) = SubSeq(prev, Len(prev) - d + 1, Len(prev))
            /\ IsPrefix(DropHead(cs[k], d), rest)
            /\ Rebuilds(cs, k + 1, cs[k], DropHead(rest, Len(cs[k]) - d))

\* The windows sp[k..] joined, each without the head that lies before cov,
\* the end of what the earlier windows cover.
RECURSIVE Joined(_, _, _)
Joined(sp, k, cov) ==
    IF k > Len(sp) THEN <<>>
    ELSE LET piece == DropHead(sp[k].raw, cov - sp[k].start)
         IN  piece \o Joined(sp, k + 1, cov + Len(piece))

\* no window starts after the end of its predecessor
NoGap(sp) == \A k \in 2..Len(sp) : sp[k].start <= sp[k - 1].end

\* C1, as claimed: for a text longer than chunk_size the returned chunks,
\* each without a head that overlaps the tail of its predecessor,
\* concatenate to the text.
C1_ChunksRebuildText ==
    (pc = "done" /\ Len(text) > chunk_size) => Rebuilds(chunks, 1, <<>>, text)

\* C1, amended: for a text longer than chunk_size the windows cut by the
\* loop (the chunks before strip), each without the head that earlier
\* windows already cover, concatenate to the part of the text read so far,
\* and to the whole text on return; every returned chunk is its window
\* stripped.
C1_WindowsRebuildText ==
    (pc \in {"loop", "done"} /\ Len(text) > chunk_size) =>
        /\ NoGap(spans)
        /\ IsPrefix(Joined(spans, 1, 0), text)
        /\ pc = "done" => Joined(spans, 1, 0) = text
        /\ Len(chunks) = Len(spans)
        /\ \A k \in 1..Len(spans) : chunks[k] = Strip(spans[k].raw)

\* C1 witness: chunk_text returned several chunks of a longer text, one of
\* them a snapped window and one of them shortened by strip.
C1_Witness ==
    /\ pc = "done"
    /\ Len(text) > chunk_size
    /\ Len(chunks) >= 2
    /\ \E k \in 1..Len(spans) : spans[k].snapped
    /\ \E k \in 1..Len(spans) : chunks[k] # spans[k].raw

\* C2, as claimed: a text shorter than chunk_size comes back as exactly one
\* chunk, the text stripped.
C2_ShortTextIsStripped ==
    (pc = "done" /\ Len(text) < chunk_size) => chunks = <<Strip(text)>>

\* C3, as claimed: every window that does not reach the end of the text
\* ends just after its last '.' or newline when that lies at window offset
\* >= chunk_size // 2, and has length chunk_size otherwise.
C3_SnapAtWindowMidpoint ==
    \A k \in 1..Len(spans) :
        LET s  == spans[k].start
            bp == BreakPoint(Slice(text, s, s + chunk_size))
        IN  (s >= 0 /\ s + chunk_size < Len(text)) =>
                spans[k].end = IF bp >= chunk_size \div 2
                               THEN s + bp + 1
                               ELSE s + chunk_size

\* C4, as claimed: each window starts chunk_size - overlap after the
\* previous window's start, snapped or not.
C4_FixedStride ==
    \A k \in 2..Len(spans) :
        spans[k].start = spans[k - 1].start + chunk_size - overlap

\* C4, amended: each window starts overlap before the previous window's
\* end; that is chunk_size - overlap after the previous start exactly when
\* the previous window was not snapped short of chunk_size.
C4_StartIsPrevEndMinusOverlap ==
    \A k \in 2..Len(spans) :
        /\ spans[k].start = spans[k - 1].end - overlap
        /\ (spans[k].start = spans[k - 1].start + chunk_size - overlap)
             <=> (spans[k - 1].end = spans[k - 1].start + chunk_size)

\* C4 witness: a window that follows a window snapped short.
C4_Witness ==
    \E k \in 2..Len(spans) :
        /\ spans[k - 1].snapped
        /\ spans[k - 1].end < spans[k - 1].start + chunk_size

\* C5, as claimed: the window start strictly increases on every loop
\* iteration.
C5_StartIncreases ==
    [][(pc = "loop" /\ pc' = "loop") => start' > start]_vars

----------------------------------------------------------------------------
(* Properties of upload_documents and upload_from_file.                     *)

\* upload_documents has returned (line 81 has printed)
Finished == upc = "idle" /\ summary # NoSummary

AllOk == \A k \in 1..Len(attempts) : attempts[k].ok

QueuedIds == {vectors_to_upload[k].id : k \in 1..Len(vectors_to_upload)}

RECURSIVE SumOkSizes(_, _)
SumOkSizes(as, k) ==
    IF k > Len(as) THEN 0
    ELSE (IF as[k].ok THEN as[k].size ELSE 0) + SumOkSizes(as, k + 1)

RECURSIVE AttemptIds(_, _)
AttemptIds(as, k) ==
    IF k > Len(as) THEN <<>> ELSE as[k].ids \o AttemptIds(as, k + 1)

\* every document carries an id and no two documents carry the same one
DistinctSuppliedIds(docs) ==
    /\ \A k \in 1..Len(docs) : "id" \in DOMAIN docs[k]
    /\ Cardinality({docs[k].id : k \in 1..Len(docs)}) = Len(docs)

\* C6, as claimed: two runs on the same input queue the same set of vector
\* ids, and after two successful runs the index holds no more records than
\* after the first.
C6_StableIds ==
    \A i, j \in 1..Len(runs) :
        (i < j /\ ~runs[i].read_error /\ ~runs[j].read_error) =>
            /\ runs[i].ids = runs[j].ids
            /\ (runs[i].all_ok /\ runs[j].all_ok) =>
                   runs[j].stored <= runs[i].stored

\* C7: with pairwise distinct supplied ids the vector of chunk i of document
\* d has id d_chunk_i, no two queued vectors share an id, and after a run
\* whose batches all succeeded the index holds each queued vector under its
\* id, one record per chunk.
C7_UniqueIds ==
    DistinctSuppliedIds(documents) =>
        /\ \A k \in 1..Len(vectors_to_upload) :
              vectors_to_upload[k].id =
                  documents[origin[k].doc].id \o "_chunk_"
                      \o ToString(origin[k].chunk)
        /\ Cardinality(QueuedIds) = Len(vectors_to_upload)
        /\ (Finished /\ AllOk) =>
              \A k \in 1..Len(vectors_to_upload) :
                  /\ vectors_to_upload[k].id \in DOMAIN index_store
                  /\ index_store[vectors_to_upload[k].id] =
                        [values   |-> vectors_to_upload[k].values,
                         metadata |-> vectors_to_upload[k].metadata]

\* C7 witness: a run over two documents with distinct ids, one of them with
\* several chunks, has finished with every batch stored.
C7_Witness ==
    /\ Finished /\ AllOk
    /\ Len(documents) = 2
    /\ DistinctSuppliedIds(documents)
    /\ Len(vectors_to_upload) >= 3
    /\ Cardinality(DOMAIN index_store) = Len(vectors_to_upload)

\* C8, as claimed: every queued record carries total_chunks equal to the
\* number of chunks of its document and chunk_index equal to its position.
C8_CountsRecorded ==
    \A k \in 1..Len(vectors_to_upload) :
        /\ vectors_to_upload[k].metadata.total_chunks = origin[k].nchunks
        /\ vectors_to_upload[k].metadata.chunk_index = origin[k].chunk

\* C8, amended: total_chunks is the number of chunks of the document, and
\* chunk_index the chunk's zero-based position, unless the document's extra
\* metadata carries that key, whose value is then recorded instead.
C8_CountsUnlessOverridden ==
    \A k \in 1..Len(vectors_to_upload) :
        LET extra == Get(documents[origin[k].doc], "metadata", <<>>)
            md    == vectors_to_upload[k].metadata
            first == k = 1 \/ origin[k - 1].doc # origin[k].doc
            last  == k = Len(origin) \/ origin[k + 1].doc # origin[k].doc
        IN  /\ Len(origin) = Len(vectors_to_upload)
            /\ origin[k].chunk = IF first THEN 0 ELSE origin[k - 1].chunk + 1
            /\ last <=> origin[k].chunk + 1 = origin[k].nchunks
            /\ md.total_chunks = IF "total_chunks" \in DOMAIN extra
                                 THEN extra.total_chunks
                                 ELSE origin[k].nchunks
            /\ md.chunk_index = IF "chunk_index" \in DOMAIN extra
                                THEN extra.chunk_index
                                ELSE origin[k].chunk

\* C8 witness: the queue holds the last chunk of a document of several
\* chunks whose extra metadata leaves the counts alone, and a record whose
\* counts were overridden.
C8_Witness ==
    /\ upc = "batches"
    /\ \E k \in 1..Len(vectors_to_upload) :
          /\ "metadata" \in DOMAIN documents[origin[k].doc]
          /\ "total_chunks" \notin DOMAIN documents[origin[k].doc].metadata
          /\ origin[k].chunk >= 1
          /\ vectors_to_upload[k].metadata.total_chunks = origin[k].chunk + 1
    /\ \E k \in 1..Len(vectors_to_upload) :
          vectors_to_upload[k].metadata.total_chunks # origin[k].nchunks

\* C9: the batches are sent in list order, each of at most batch_size
\* vectors, each starting where the previous one ended, whatever the
\* outcome of the earlier ones; when upload_documents returns every queued
\* vector has been sent in exactly one batch.
C9_EveryBatchOnce ==
    /\ \A k \in 1..Len(attempts) :
          /\ attempts[k].first = (k - 1) * batch_size
          /\ attempts[k].size >= 1
          /\ attempts[k].size <= batch_size
          /\ attempts[k].size =
                PyMin(batch_size, Len(vectors_to_upload) - attempts[k].first)
          /\ attempts[k].ids =
                [l \in 1..attempts[k].size |->
                    vectors_to_upload[attempts[k].first + l].id]
    /\ upc = "batches" => batch_i = Len(attempts) * batch_size
    /\ Finished =>
          /\ AttemptIds(attempts, 1) =
                [k \in 1..Len(vectors_to_upload) |-> vectors_to_upload[k].id]
          /\ Len(attempts) =
                (Len(vectors_to_upload) + batch_size - 1) \div batch_size

\* C9 witness: a run of three batches has finished, the first batch having
\* failed, a later one stored, the last one shorter than batch_size.
C9_Witness ==
    /\ Finished
    /\ Len(attempts) >= 3
    /\ ~attempts[1].ok
    /\ attempts[2].ok
    /\ attempts[Len(attempts)].size < batch_size

\* C10, as claimed: the count the summary reports is the number of vectors
\* in the batches whose upsert succeeded.
C10_SummaryCountsStored ==
    Finished => summary = SumOkSizes(attempts, 1)

----------------------------------------------------------------------------
(* Retrieval: retrieve_relevant_docs of aws-chat-rag.py and of             *)
(* aws-chat-rag-milvus.py                                                  *)

MaxMatches == 3
MaxTopK == 2

\* the default top_k of retrieve_relevant_docs and of the search tool
DefaultTopK == 3

\* matches a store can answer with: id, score (in hundredths) and the
\* stored fields; the second one was stored without a text
MatchPool ==
    {[id |-> "a_chunk_0", score |-> 90,
      fields |-> [text |-> "Legus likes pasta.", title |-> "Food",
                  source |-> "S", chunk_index |-> 0, total_chunks |-> 2]],
     [id |-> "a_chunk_1", score |-> 70,
      fields |-> [title |-> "Food"]],
     [id |-> "b_chunk_0", score |-> 70,
      fields |-> [text |-> "He climbs.", chunk_index |-> 1]],
     [id |-> "c_chunk_0", score |-> 30,
      fields |-> [text |-> "", source |-> "S"]]}

Top == CHOOSE m \in MatchPool : m.score = 90
NoText == CHOOSE m \in MatchPool : "text" \notin DOMAIN m.fields
Low == CHOOSE m \in MatchPool : m.score = 30

\* sequences over S of length at most n
SeqsUpTo(S, n) == UNION {[1..k -> S] : k \in 0..n}

\* what index.query / collection.search can answer with: any matches in any
\* order, the store is not bound to top_k or to an order by the code
StoreAnswers == SeqsUpTo(MatchPool, MaxMatches)

\* aws-chat-rag.py lines 33-38
PineconeDoc(match) ==
    [content |-> Get(match.fields, "text", ""), score |-> match.score]

\* aws-chat-rag-milvus.py lines 67-76
MilvusDoc(hit) ==
    [content |-> Get(hit.fields, "text", ""),
     title |-> Get(hit.fields, "title", ""),
     source |-> Get(hit.fields, "source", ""),
     chunk_index |-> Get(hit.fields, "chunk_index", 0),
     total_chunks |-> Get(hit.fields, "total_chunks", 1),
     score |-> hit.score]

\* the loop with the matches visited last to first
DocsReversed(variant, ms) ==
    [i \in 1..Len(ms) |->
        IF variant = "milvus" THEN MilvusDoc(ms[Len(ms) + 1 - i])
        ELSE PineconeDoc(ms[Len(ms) + 1 - i])]

\* the for loops of both variants: one appended document per match
Docs(variant, ms) ==
    [i \in 1..Len(ms) |->
        IF variant = "milvus" THEN MilvusDoc(ms[i]) ELSE PineconeDoc(ms[i])]

\* the search request retrieve_relevant_docs sends to the store
SearchEvent(query, k) == [kind |-> "search", query |-> query, top_k |-> k]

Queries == {"pasta", "What does Legus eat?"}

\* a call of retrieve_relevant_docs(query, top_k) about to be made
RetrieveInit ==
    /\ script \in {"rag", "milvus"}
    /\ argv = <<>>
    /\ user_prompt \in Queries
    /\ cpc = "retrieve"
    /\ response = <<>>
    /\ tool_i = 0
    /\ top_k \in 1..MaxTopK
    /\ matches = <<>>
    /\ relevant_docs = <<>>
    /\ connected \in IF script = "milvus" THEN BOOLEAN ELSE {FALSE}
    /\ conn_open = connected
    /\ events = <<>>
    /\ exit_code = NotExited
    /\ request = [kind |-> "none"]
    /\ UploadIdle
    /\ ChunkIdle
    /\ MigrateIdle

\* aws-chat-rag-milvus.py lines 50-51
RetrieveRefused ==
    /\ cpc = "retrieve"
    /\ script = "milvus"
    /\ ~connected
    /\ cpc' = "raised"
    /\ UNCHANGED <<script, argv, user_prompt, response, tool_i, top_k,
                   matches, relevant_docs, connected, conn_open, events,
                   exit_code>>
    /\ UNCHANGED <<cvars, uvars, migvars>>

\* aws-chat-rag.py lines 25-40, aws-chat-rag-milvus.py lines 53-79
RetrieveReturns ==
    /\ cpc = "retrieve"
    /\ script = "milvus" => connected
    /\ \E answer \in StoreAnswers :
        /\ matches' = answer
        /\ relevant_docs' = Docs(script, answer)
    /\ events' = Append(events, SearchEvent(user_prompt, top_k))
    /\ cpc' = "returned"
    /\ UNCHANGED <<script, argv, user_prompt, response, tool_i, top_k,
                   connected, conn_open, exit_code>>
    /\ UNCHANGED <<cvars, uvars, migvars>>

RetrieveNext == RetrieveRefused \/ RetrieveReturns

SpecRetrieve == RetrieveInit /\ [][RetrieveNext]_vars

\* scores never increase along the list
Descending(s) == \A i \in 1..Len(s) - 1 : s[i].score >= s[i + 1].score

\* C11: retrieve_relevant_docs returns one result per match the store
\* returned, in the store's order, carrying the match's score and text; so
\* when the store answered with at most top_k matches in descending score
\* order, the returned list is in descending score order and no longer than
\* top_k.
C11_OnePerMatchInOrder ==
    cpc = "returned" =>
        /\ Len(relevant_docs) = Len(matches)
        /\ \A i \in 1..Len(matches) :
            /\ relevant_docs[i].score = matches[i].score
            /\ relevant_docs[i].content = Get(matches[i].fields, "text", "")
        /\ (Descending(matches) /\ Len(matches) <= top_k) =>
            (Descending(relevant_docs) /\ Len(relevant_docs) <= top_k)

\* a call that returned top_k = 2 matches in descending order, the second
\* one stored without a text
C11_Witness ==
    /\ cpc = "returned"
    /\ top_k = 2
    /\ matches = <<Top, NoText>>
    /\ relevant_docs[2].content = ""

----------------------------------------------------------------------------
(* The chat scripts: aws-chat.py, aws-chat-rag.py, aws-chat-rag-milvus.py. *)
(* Progress lines ("Question: ...", "Searching knowledge base...") are     *)
(* not recorded; usage, answer and error lines are.                        *)

MaxArgs == 2
MaxToolCalls == 2

max_tokens == 512

\* sep.join(strs)
RECURSIVE StrJoin(_, _)
StrJoin(sep, strs) ==
    IF Len(strs) = 0 THEN ""
    ELSE IF Len(strs) = 1 THEN strs[1]
    ELSE strs[1] \o sep \o StrJoin(sep, Tail(strs))

\* " ".join(sys.argv[1:]) without the separator
UserPromptNoSpace(av) == StrJoin("", Tail(av))

\* " ".join(sys.argv[1:])
UserPrompt(av) == StrJoin(" ", Tail(av))

\* the script's file name, sys.argv[0]
ScriptName(s) ==
    IF s = "chat" THEN "aws-chat.py"
    ELSE IF s = "rag" THEN "aws-chat-rag.py"
    ELSE "aws-chat-rag-milvus.py"

\* command-line words; the shell may pass an empty or a spaced argument
Words == {"Who", "is Legus?"}

Argvs(s) == {<<ScriptName(s)>> \o args : args \in SeqsUpTo(Words, MaxArgs)}

\* the two usage lines of each script
Usage(s) ==
    IF s = "chat" THEN "Usage: python aws-chat.py <your_question>"
    ELSE IF s = "rag" THEN "Usage: python aws-chat-rag.py <your_question>"
    ELSE "Usage: python aws-chat-rag-milvus-simple.py <your_question>"

\* print(head, text), a line written to stdout
PrintEvent(head, t) == [kind |-> "print", head |-> head, text |-> t]

\* "Error: No response from AI", what both ask_ai return without choices
NoResponse == "Error: No response from AI"

\* contents the model answers with
Answers == {"Paris.", "", NoResponse}

Message(c) == [role |-> "assistant", content |-> c]

\* a message the endpoint returned without a content key
NoContentMessage == [role |-> "assistant"]

\* the arguments of a tool call: a JSON-encoded string, which json.loads
\* turns into a dict or rejects
ToolKinds ==
    {[name |-> "search_knowledge_base",
      arguments |-> [ok |-> TRUE, value |-> [query |-> "pasta", top_k |-> 1]]],
     [name |-> "search_knowledge_base",
      arguments |-> [ok |-> TRUE, value |-> <<>>]],
     [name |-> "get_weather",
      arguments |-> [ok |-> TRUE, value |-> <<>>]],
     [name |-> "search_knowledge_base",
      arguments |-> [ok |-> FALSE]]}

\* the tool_calls lists of a response: ids are distinct within a response
ToolCallSeqs ==
    {[i \in 1..n |-> [id |-> "call_" \o ToString(i), function |-> f[i]]] :
        n \in 1..MaxToolCalls, f \in [1..MaxToolCalls -> ToolKinds]}

ToolMessage(tcs) ==
    [role |-> "assistant", content |-> "", tool_calls |-> tcs]

PlainMessages == {Message(c) : c \in Answers} \cup {NoContentMessage}

ToolMessages == {ToolMessage(tcs) : tcs \in ToolCallSeqs \cup {<<>>}}

\* what client.invoke_model does: raise, or return a body
Replies(msgs) ==
    {[kind |-> "raise"],
     [kind |-> "body", body |-> [message |-> "throttled"]],
     [kind |-> "body", body |-> [choices |-> <<>>]]}
    \cup {[kind |-> "body", body |-> [choices |-> <<[message |-> m]>>]] :
            m \in msgs}

\* "choices" in response_body and len(response_body["choices"]) > 0
HasChoices(body) ==
    /\ "choices" \in DOMAIN body
    /\ Len(body.choices) > 0

\* how a reply ended
ReplyKind(r) ==
    IF r.kind = "raise" THEN "raise"
    ELSE IF HasChoices(r.body) THEN "message"
    ELSE "nochoices"

\* client.invoke_model(body=json.dumps(body)) and its reply
InferEvent(body, r) == [kind |-> "infer", body |-> body, reply |-> r]

UserMessage(c) == [role |-> "user", content |-> c]

\* a chat script about to start
ChatInit ==
    /\ script \in {"chat", "rag", "milvus"}
    /\ argv \in Argvs(script)
    /\ user_prompt = ""
    /\ cpc = "start"
    /\ response = <<>>
    /\ tool_i = 0
    /\ top_k = 0
    /\ matches = <<>>
    /\ relevant_docs = <<>>
    /\ connected = FALSE
    /\ conn_open = FALSE
    /\ events = <<>>
    /\ exit_code = NotExited
    /\ request = [kind |-> "none"]
    /\ UploadIdle
    /\ ChunkIdle
    /\ MigrateIdle

\* the script ends: sys.exit(code), an uncaught exception (status 1) or
\* the end of the module (status 0)
Exit(code) ==
    /\ cpc' = "exit"
    /\ exit_code' = code

\* len(sys.argv) < 2: usage is printed and the script exits with status 1
NoQuestion ==
    /\ cpc = "start"
    /\ Len(argv) < 2
    /\ events' = Append(events, PrintEvent(Usage(script), ""))
    /\ Exit(1)
    /\ UNCHANGED <<script, argv, user_prompt, response, tool_i, top_k,
                   matches, relevant_docs, connected, conn_open>>
    /\ UNCHANGED <<cvars, uvars, migvars>>

\* the question is read from the command line
ReadQuestion ==
    /\ cpc = "start"
    /\ ~(Len(argv) < 2)
    /\ user_prompt' = UserPrompt(argv)
    /\ cpc' = IF script = "chat" THEN "invoke"
              ELSE IF script = "rag" THEN "ask"
              ELSE "connect"
    /\ UNCHANGED <<script, argv, response, tool_i, top_k, matches,
                   relevant_docs, connected, conn_open, events, exit_code>>
    /\ UNCHANGED <<cvars, uvars, migvars>>

\* aws-chat.py lines 18-37
ChatInvoke ==
    /\ cpc = "invoke"
    /\ script = "chat"
    /\ \E r \in Replies(PlainMessages) :
        LET body == [messages |-> <<UserMessage(user_prompt)>>,
                     max_tokens |-> max_tokens]
            sent == Append(events, InferEvent(body, r))
        IN  IF r.kind = "raise" THEN
                /\ events' = sent
                /\ Exit(1)
            ELSE IF HasChoices(r.body) THEN
                IF "content" \in DOMAIN r.body.choices[1].message THEN
                    /\ events' = Append(sent, PrintEvent("Assistant:",
                                    r.body.choices[1].message.content))
                    /\ Exit(0)
                ELSE
                    /\ events' = sent
                    /\ Exit(1)
            ELSE
                /\ events' = Append(sent,
                        PrintEvent("Error: No choices found in response", ""))
                /\ Exit(0)
    /\ UNCHANGED <<script, argv, user_prompt, response, tool_i, top_k,
                   matches, relevant_docs, connected, conn_open>>
    /\ UNCHANGED <<cvars, uvars, migvars>>


\* create_system_prompt_with_tools(), its first sentence standing for all
SystemPrompt ==
    "You are a helpful assistant with access to a knowledge base search function."

\* create_search_tool(): one function, search_knowledge_base(query, top_k)
SearchTool ==
    <<[type |-> "function",
       function |-> [name |-> "search_knowledge_base",
                     properties |-> {"query", "top_k"},
                     required |-> {"query"}]]>>

\* "\n\n".join([doc['content'] for doc in relevant_docs])
Context(docs) == StrJoin("\n\n", [i \in 1..Len(docs) |-> docs[i].content])

\* create_rag_prompt of both RAG scripts
create_rag_prompt(user_query, docs) ==
    "Based on the following context, please answer the user's question:\n\nContext:\n"
    \o Context(docs) \o "\n\nUser Question: " \o user_query
    \o "\n\nPlease provide a helpful answer based on the context provided."

\* what the store does in a chat run: it fails, finds nothing, or answers
StoreReplies ==
    {[kind |-> "raise"],
     [kind |-> "matches", matches |-> <<>>],
     [kind |-> "matches", matches |-> <<Top, NoText>>]}

\* the tool-result message keyed by nothing
ToolResultNoId(tc, result) ==
    [role |-> "tool", tool_call_id |-> "", content |-> result]

\* the tool-result message of the follow-up request
ToolResult(tc, result) ==
    [role |-> "tool", tool_call_id |-> tc.id, content |-> result]

\* the return value of handle_function_call for a search that answered docs
SearchResult(query, docs) ==
    "Search results for '" \o query \o "':\n\n" \o Context(docs)

\* response has tool calls: lines 165
HasToolCalls(resp) ==
    /\ "tool_calls" \in DOMAIN resp
    /\ Len(resp.tool_calls) > 0

\* aws-chat-rag.py lines 160-166 and 202-204: the first request, and the
\* answer when the model asked for no tool
RagAsk ==
    /\ cpc = "ask"
    /\ script = "rag"
    /\ \E r \in Replies(PlainMessages \cup ToolMessages) :
        LET body == [messages |-> <<[role |-> "system",
                                     content |-> SystemPrompt],
                                    UserMessage(user_prompt)>>,
                     max_tokens |-> max_tokens,
                     tools |-> SearchTool]
            sent == Append(events, InferEvent(body, r))
            msg == IF HasChoices(r.body) THEN r.body.choices[1].message
                   ELSE [content |-> NoResponse]
        IN  IF r.kind = "raise" THEN
                /\ events' = sent
                /\ response' = response
                /\ Exit(1)
            ELSE IF HasToolCalls(msg) THEN
                /\ events' = sent
                /\ response' = msg
                /\ cpc' = "tools"
                /\ exit_code' = exit_code
            ELSE
                /\ events' = Append(sent,
                        PrintEvent("Final Assistant Response:",
                            Get(msg, "content", "No content in response")))
                /\ response' = msg
                /\ Exit(0)
    /\ UNCHANGED <<script, argv, user_prompt, tool_i, top_k, matches,
                   relevant_docs, connected, conn_open>>
    /\ UNCHANGED <<cvars, uvars, migvars>>

\* lines 174-201: the follow-up request for one tool call and its outcome
FollowUp(log, tc, result, r) ==
    LET body == [messages |-> <<[role |-> "system",
                                 content |-> SystemPrompt],
                                UserMessage(user_prompt),
                                response,
                                ToolResult(tc, result)>>,
                 max_tokens |-> max_tokens]
        sent == Append(log, InferEvent(body, r))
        last == tool_i + 1 = Len(response.tool_calls)
    IN  IF r.kind = "raise" THEN
            /\ events' = sent
            /\ Exit(1)
        ELSE IF HasChoices(r.body) THEN
            IF "content" \in DOMAIN r.body.choices[1].message THEN
                /\ events' = Append(sent,
                        PrintEvent("\nFinal Assistant Response:",
                                   r.body.choices[1].message.content))
                /\ IF last THEN Exit(0)
                   ELSE UNCHANGED <<cpc, exit_code>>
            ELSE
                /\ events' = sent
                /\ Exit(1)
        ELSE
            /\ events' = Append(sent,
                    PrintEvent("\nError: No final response from AI", ""))
            /\ IF last THEN Exit(0)
               ELSE UNCHANGED <<cpc, exit_code>>

\* lines 168-201: one iteration of the loop over response["tool_calls"],
\* with handle_function_call (lines 103-119)
RagToolCall ==
    /\ cpc = "tools"
    /\ script = "rag"
    /\ tool_i < Len(response.tool_calls)
    /\ tool_i' = tool_i + 1
    /\ LET tc == response.tool_calls[tool_i + 1]
           function_name == tc.function.name
       IN  IF ~tc.function.arguments.ok THEN
               /\ Exit(1)
               /\ UNCHANGED <<events, top_k, matches, relevant_docs>>
           ELSE IF function_name = "search_knowledge_base" THEN
               LET arguments == tc.function.arguments.value
                   query == Get(arguments, "query", "")
                   k == Get(arguments, "top_k", DefaultTopK)
                   searched == Append(events, SearchEvent(query, k))
               IN  \E s \in StoreReplies :
                       /\ top_k' = k
                       /\ IF s.kind = "raise" THEN
                              /\ events' = searched
                              /\ Exit(1)
                              /\ UNCHANGED <<matches, relevant_docs>>
                          ELSE
                              /\ matches' = s.matches
                              /\ relevant_docs' = Docs("rag", s.matches)
                              /\ \E r \in Replies(PlainMessages) :
                                    FollowUp(searched, tc,
                                        SearchResult(query,
                                            Docs("rag", s.matches)), r)
           ELSE
               /\ \E r \in Replies(PlainMessages) :
                       FollowUp(events, tc, "Function not found", r)
               /\ UNCHANGED <<top_k, matches, relevant_docs>>
    /\ UNCHANGED <<script, argv, user_prompt, response, connected,
                   conn_open>>
    /\ UNCHANGED <<cvars, uvars, migvars>>

\* main's except and the jump to finally: lines 154-156
Caught(log, e) ==
    /\ events' = Append(log, PrintEvent("Error: ", e))
    /\ cpc' = "finally"

\* milvus_rag.connect(), lines 25-35 and 133: the connection is refused, or
\* it opens and the collection cannot be loaded, or all three calls succeed
MilvusConnect ==
    /\ cpc = "connect"
    /\ script = "milvus"
    /\ \E outcome \in {"refused", "nocollection", "ok"} :
        IF outcome = "refused" THEN
            /\ Caught(events, "connection refused")
            /\ UNCHANGED <<connected, conn_open>>
        ELSE IF outcome = "nocollection" THEN
            /\ conn_open' = TRUE
            /\ Caught(events, "collection not found")
            /\ UNCHANGED connected
        ELSE
            /\ conn_open' = TRUE
            /\ connected' = TRUE
            /\ cpc' = "search"
            /\ UNCHANGED events
    /\ UNCHANGED <<script, argv, user_prompt, response, tool_i, top_k,
                   matches, relevant_docs, exit_code>>
    /\ UNCHANGED <<cvars, uvars, migvars>>

\* milvus_rag.retrieve_relevant_docs(user_prompt, top_k=3), line 137
MilvusRetrieve ==
    /\ cpc = "search"
    /\ script = "milvus"
    /\ IF ~connected THEN
           /\ Caught(events, "Not connected to Milvus")
           /\ UNCHANGED <<top_k, matches, relevant_docs>>
       ELSE
           /\ top_k' = DefaultTopK
           /\ \E s \in StoreReplies :
               LET searched ==
                     Append(events, SearchEvent(user_prompt, DefaultTopK))
               IN  IF s.kind = "raise" THEN
                       /\ Caught(searched, "search failed")
                       /\ UNCHANGED <<matches, relevant_docs>>
                   ELSE
                       /\ matches' = s.matches
                       /\ relevant_docs' = Docs("milvus", s.matches)
                       /\ events' = searched
                       /\ cpc' = "answer"
    /\ UNCHANGED <<script, argv, user_prompt, response, tool_i, connected,
                   conn_open, exit_code>>
    /\ UNCHANGED <<cvars, uvars, migvars>>

\* the prompt with the context in place of the question in both branches
MilvusPromptAlwaysRag(q, docs) == create_rag_prompt(q, docs)

\* lines 143-152: the prompt ask_ai is called with
MilvusPrompt(q, docs) ==
    IF docs # <<>> THEN create_rag_prompt(q, docs) ELSE q

\* lines 143-152 with ask_ai, lines 98-119
MilvusAnswer ==
    /\ cpc = "answer"
    /\ script = "milvus"
    /\ \E r \in Replies(PlainMessages) :
        LET body == [messages |->
                        <<UserMessage(MilvusPrompt(user_prompt,
                                                   relevant_docs))>>,
                     max_tokens |-> max_tokens]
            sent == Append(events, InferEvent(body, r))
        IN  IF r.kind = "raise" THEN
                Caught(sent, "inference failed")
            ELSE IF HasChoices(r.body) THEN
                IF "content" \in DOMAIN r.body.choices[1].message THEN
                    /\ events' = Append(sent,
                            PrintEvent("\nAssistant Response: ",
                                       r.body.choices[1].message.content))
                    /\ cpc' = "finally"
                ELSE
                    Caught(sent, "'content'")
            ELSE
                /\ events' = Append(sent,
                        PrintEvent("\nAssistant Response: ", NoResponse))
                /\ cpc' = "finally"
    /\ UNCHANGED <<script, argv, user_prompt, response, tool_i, top_k,
                   matches, relevant_docs, connected, conn_open, exit_code>>
    /\ UNCHANGED <<cvars, uvars, migvars>>

\* milvus_rag.disconnect(), lines 37-42 and 156-157, then the script ends
MilvusDisconnect ==
    /\ cpc = "finally"
    /\ script = "milvus"
    /\ IF connected THEN
           /\ conn_open' = FALSE
           /\ connected' = FALSE
       ELSE
           UNCHANGED <<connected, conn_open>>
    /\ Exit(0)
    /\ UNCHANGED <<script, argv, user_prompt, response, tool_i, top_k,
                   matches, relevant_docs, events>>
    /\ UNCHANGED <<cvars, uvars, migvars>>

ChatNext ==
    \/ NoQuestion
    \/ ReadQuestion
    \/ ChatInvoke
    \/ RagAsk
    \/ RagToolCall
    \/ MilvusConnect
    \/ MilvusRetrieve
    \/ MilvusAnswer
    \/ MilvusDisconnect

SpecChat == ChatInit /\ [][ChatNext]_vars



\* the events of one kind, in order
EventsOf(kind) == SelectSeq(events, LAMBDA e : e.kind = kind)

Infers == EventsOf("infer")
Searches == EventsOf("search")
Prints == EventsOf("print")

\* the heads of the lines that present a model answer
AnswerHeads ==
    {"Assistant:", "Final Assistant Response:",
     "\nFinal Assistant Response:", "\nAssistant Response: "}

AnswerLines == SelectSeq(Prints, LAMBDA e : e.head \in AnswerHeads)

\* the lines that report a failure
ErrorLines ==
    SelectSeq(Prints, LAMBDA e : e.head \in
        {"Error: ", "Error: No choices found in response",
         "\nError: No final response from AI"})

\* the reply carried a message with a content
HasContent(r) ==
    /\ ReplyKind(r) = "message"
    /\ "content" \in DOMAIN r.body.choices[1].message

ContentOf(r) == r.body.choices[1].message.content

\* the Milvus script ended after a search that returned no document
ZeroResults ==
    /\ script = "milvus"
    /\ cpc = "exit"
    /\ Len(Searches) = 1
    /\ relevant_docs = <<>>
    /\ \A i \in 1..Len(Prints) : Prints[i].text # "search failed"

\* C12 as claimed: in the Milvus script, when retrieval returns zero results
\* the run does not fail, exactly one inference request is issued, carrying
\* the user's question unchanged with no injected context, and a non-empty
\* final answer is printed.
C12_FallbackAnswersNonEmpty ==
    ZeroResults =>
        /\ exit_code = 0
        /\ Len(Infers) = 1
        /\ Infers[1].body.messages = <<UserMessage(user_prompt)>>
        /\ Len(AnswerLines) = 1
        /\ AnswerLines[1].text # ""

\* C12 amended: in the Milvus script, when retrieval returns zero results
\* the process ends with status 0 after exactly one inference request, which
\* carries the user's question unchanged with no injected context and no
\* tools; a returned content is printed unchanged as the Assistant Response
\* (empty when the model's content is empty), a body without choices prints
\* "Error: No response from AI" as the Assistant Response, and a request
\* that raises or a message without content prints an "Error:" line and no
\* answer.
C12_FallbackAsksQuestionUnchanged ==
    ZeroResults =>
        /\ exit_code = 0
        /\ Len(Infers) = 1
        /\ Infers[1].body =
              [messages |-> <<UserMessage(user_prompt)>>,
               max_tokens |-> max_tokens]
        /\ LET r == Infers[1].reply
           IN  IF HasContent(r) THEN
                   /\ Len(AnswerLines) = 1
                   /\ AnswerLines[1].text = ContentOf(r)
                   /\ Len(ErrorLines) = 0
               ELSE IF ReplyKind(r) = "nochoices" THEN
                   /\ Len(AnswerLines) = 1
                   /\ AnswerLines[1].text = NoResponse
                   /\ Len(ErrorLines) = 0
               ELSE
                   /\ Len(AnswerLines) = 0
                   /\ Len(ErrorLines) = 1

\* a run whose search found nothing and whose fallback request was answered
C12_Witness ==
    /\ ZeroResults
    /\ Len(Infers) = 1
    /\ Len(AnswerLines) = 1
    /\ AnswerLines[1].text = "Paris."


\* the positions in the log of the events of one kind, in order
PositionsOf(kind) ==
    SelectSeq([i \in 1..Len(events) |-> i],
              LAMBDA i : events[i].kind = kind)

InferPos == PositionsOf("infer")
SearchPos == PositionsOf("search")

\* the tool-mediated script ran to the end of the module
RagCompleted ==
    /\ script = "rag"
    /\ cpc = "exit"
    /\ exit_code = 0

\* C13 as claimed: in the tool-mediated script a retrieval and a follow-up
\* request happen if and only if the first response contains a tool-call
\* request; then the retrieval precedes the follow-up, whose tool-result
\* message is keyed by the id of the executed tool call; otherwise there is
\* no retrieval, no further request, and the first response's content is
\* printed unchanged.
C13_RetrievalIffToolCall ==
    RagCompleted =>
        /\ (Len(Searches) > 0 /\ Len(Infers) > 1) <=> HasToolCalls(response)
        /\ HasToolCalls(response) =>
            /\ SearchPos[1] < InferPos[2]
            /\ Infers[2].body.messages[4].role = "tool"
            /\ Infers[2].body.messages[4].tool_call_id =
                  response.tool_calls[1].id
        /\ ~HasToolCalls(response) =>
            /\ Len(Searches) = 0
            /\ Len(Infers) = 1
            /\ Len(AnswerLines) = 1
            /\ "content" \in DOMAIN response =>
                  AnswerLines[1].text = response.content

\* the searches logged strictly between positions a and b
SearchesBetween(a, b) ==
    SelectSeq(SubSeq(events, a + 1, b - 1), LAMBDA e : e.kind = "search")

\* C13 amended: on a run of the tool-mediated script that reaches the end
\* of the module, follow-up requests happen if and only if the first
\* response has a non-empty tool_calls list, one per tool call in order,
\* each carrying the first response and a tool-result message keyed by the
\* id of the tool call being handled; for a call of search_knowledge_base
\* exactly one retrieval (with the call's query and top_k, defaults "" and
\* 3) runs after the previous request and before that call's follow-up; for
\* any other function name no retrieval runs and the tool result is
\* "Function not found"; without a tool call there is no retrieval and no
\* further request, and the first response's content is printed unchanged
\* ("No content in response" when it has none).
C13_FollowUpIffToolCall ==
    RagCompleted =>
        IF HasToolCalls(response) THEN
            /\ Len(Infers) = 1 + Len(response.tool_calls)
            /\ \A j \in 1..Len(response.tool_calls) :
                LET tc == response.tool_calls[j]
                    msgs == Infers[j + 1].body.messages
                    found == SearchesBetween(InferPos[j], InferPos[j + 1])
                IN  /\ Len(msgs) = 4
                    /\ msgs[3] = response
                    /\ msgs[4].role = "tool"
                    /\ msgs[4].tool_call_id = tc.id
                    /\ IF tc.function.name = "search_knowledge_base" THEN
                           /\ Len(found) = 1
                           /\ found[1].query =
                                Get(tc.function.arguments.value, "query", "")
                           /\ found[1].top_k =
                                Get(tc.function.arguments.value, "top_k",
                                    DefaultTopK)
                       ELSE
                           /\ Len(found) = 0
                           /\ msgs[4].content = "Function not found"
        ELSE
            /\ Len(Searches) = 0
            /\ Len(Infers) = 1
            /\ Len(AnswerLines) = 1
            /\ AnswerLines[1].text =
                  Get(response, "content", "No content in response")

\* a completed run in which the model asked for one search, the search ran
\* and the follow-up request was sent
C13_Witness ==
    /\ RagCompleted
    /\ HasToolCalls(response)
    /\ Len(Searches) = 1
    /\ Len(Infers) = 2
    /\ SearchPos[1] < InferPos[2]


\* C14: in every chat script a reply whose body has no 'choices' key or an
\* empty 'choices' list does not raise and is reported as a 'no response'
\* outcome of its own: the run goes on to print a line, and that line is
\* not one of the lines that present a model answer.
C14_NoChoicesIsDistinctOutcome ==
    cpc = "exit" =>
        \A k \in 1..Len(InferPos) :
            ReplyKind(events[InferPos[k]].reply) = "nochoices" =>
                /\ InferPos[k] < Len(events)
                /\ events[InferPos[k] + 1].kind = "print"
                /\ events[InferPos[k] + 1].head \notin AnswerHeads

\* " ".join read from the last argument backwards
RECURSIVE Spaced(_)
Spaced(args) ==
    IF Len(args) = 1 THEN args[1]
    ELSE Spaced(SubSeq(args, 1, Len(args) - 1)) \o " " \o args[Len(args)]

\* C15: in each of the three chat scripts, without a question argument the
\* script prints usage and exits with a nonzero status, having issued no
\* inference request and no similarity search; with arguments, the question
\* is the trailing arguments joined with single spaces.
C15_UsageOrJoinedQuestion ==
    /\ (cpc = "exit" /\ Len(argv) < 2) =>
        /\ exit_code # 0
        /\ exit_code # NotExited
        /\ events = <<PrintEvent(Usage(script), "")>>
    /\ (cpc # "start" /\ Len(argv) >= 2) =>
        /\ user_prompt = Spaced(Tail(argv))
        /\ \A i \in 1..Len(Prints) : Prints[i].head # Usage(script)
        /\ (script \in {"chat", "rag"} /\ Len(Infers) > 0) =>
            \E i \in 1..Len(Infers[1].body.messages) :
                Infers[1].body.messages[i] = UserMessage(Spaced(Tail(argv)))

\* a run started with two arguments, one of them holding a space, that sent
\* its question to the model
C15_Witness ==
    /\ cpc = "exit"
    /\ argv = <<ScriptName(script), "Who", "is Legus?">>
    /\ user_prompt = "Who is Legus?"
    /\ Len(Infers) > 0

\* C16: in the Milvus RAG script, once connect() was attempted, the
\* connection to the vector store is closed and the client is in the
\* not-connected state when the process ends, on every path.
C16_ConnectionReleased ==
    (script = "milvus" /\ cpc = "exit") =>
        /\ ~conn_open
        /\ ~connected


\* the lines that report the outcome of a follow-up request
FinalOutcomes ==
    SelectSeq(Prints, LAMBDA e : e.head \in
        {"\nFinal Assistant Response:", "\nError: No final response from AI"})

\* C18: in a run of the tool-mediated script whose first response holds
\* n >= 1 tool calls, at most two inference requests are issued, exactly
\* one final outcome is printed, and the follow-up request holds a
\* tool-result message for every tool call of the assistant message it
\* carries.
C18_OneFollowUpForAllToolCalls ==
    (RagCompleted /\ HasToolCalls(response)) =>
        /\ Len(Infers) <= 2
        /\ Len(FinalOutcomes) = 1
        /\ \A k \in 2..Len(Infers) :
            LET msgs == Infers[k].body.messages
            IN  \A j \in 1..Len(msgs[3].tool_calls) :
                    \E i \in 1..Len(msgs) :
                        /\ msgs[i].role = "tool"
                        /\ msgs[i].tool_call_id = msgs[3].tool_calls[j].id

----------------------------------------------------------------------------
(* migrate_to_milvus.py: migrate_from_pinecone and the MilvusManager       *)
(* methods it calls                                                        *)

MaxExport == 2

\* elements of the export file: {id, values, metadata, score}. The first
\* holds what upload_documents stores by default, the second has no title
\* or source, the third carries a field of its document's own metadata
ExportPool ==
    {[id |-> "a_chunk_0", values |-> <<1, 0>>, score |-> 90,
      metadata |-> [text |-> "Legus likes pasta.", title |-> "Food",
                    source |-> "S", chunk_index |-> 0, total_chunks |-> 2]],
     [id |-> "a_chunk_1", values |-> <<0, 1>>, score |-> 70,
      metadata |-> [text |-> "He climbs.", chunk_index |-> 1,
                    total_chunks |-> 2]],
     [id |-> "b_chunk_0", values |-> <<1, 1>>, score |-> 30,
      metadata |-> [text |-> "He reads.", title |-> "Books",
                    source |-> "S", chunk_index |-> 0, total_chunks |-> 1,
                    category |-> "hobby"]]}

Plain == CHOOSE item \in ExportPool : item.id = "a_chunk_0"
Tagged == CHOOSE item \in ExportPool : "category" \in DOMAIN item.metadata

\* the row insert_data builds from one element, lines 162-169
Row(item) ==
    [id |-> item.id,
     embedding |-> item.values,
     text |-> Get(item.metadata, "text", ""),
     title |-> Get(item.metadata, "title", ""),
     source |-> Get(item.metadata, "source", ""),
     chunk_index |-> Get(item.metadata, "chunk_index", 0),
     total_chunks |-> Get(item.metadata, "total_chunks", 1)]

\* rows left in nimonik_rag by an earlier run
OldRows == <<Row(Plain), [Row(Plain) EXCEPT !.id = "old_chunk_0"]>>

\* migrate_from_pinecone has loaded the export file, lines 258-268
MigrateInit ==
    /\ export \in SeqsUpTo(ExportPool, MaxExport)
    /\ collection \in {[exists |-> FALSE, rows |-> <<>>],
                       [exists |-> TRUE, rows |-> <<>>],
                       [exists |-> TRUE, rows |-> OldRows]}
    /\ handle = FALSE
    /\ mconn = FALSE
    /\ mpc = "connect"
    /\ request = [kind |-> "none"]
    /\ UploadIdle
    /\ ChunkIdle
    /\ ChatIdle

\* a call raised: migrate_from_pinecone's except prints and re-raises after
\* the finally block
Failed == mpc' = "finally_raise"

\* milvus_manager.connect(), lines 27-34
MigrateConnect ==
    /\ mpc = "connect"
    /\ \/ /\ mconn' = TRUE
          /\ mpc' = "create"
       \/ /\ Failed
          /\ UNCHANGED mconn
    /\ UNCHANGED <<export, collection, handle>>
    /\ UNCHANGED <<cvars, uvars, chatvars>>

\* milvus_manager.create_collection(drop_existing=True), lines 95-132: an
\* existing collection is dropped, a new one is created and indexed
MigrateCreateCollection ==
    /\ mpc = "create"
    /\ \/ /\ collection' = [exists |-> TRUE, rows |-> <<>>]
          /\ handle' = TRUE
          /\ mpc' = "load"
       \/ /\ Failed
          /\ UNCHANGED <<collection, handle>>
    /\ UNCHANGED <<export, mconn>>
    /\ UNCHANGED <<cvars, uvars, chatvars>>

\* milvus_manager.load_collection(), lines 134-140
MigrateLoadCollection ==
    /\ mpc = "load"
    /\ \/ /\ handle' = TRUE
          /\ mpc' = "insert"
       \/ /\ Failed
          /\ UNCHANGED handle
    /\ UNCHANGED <<export, collection, mconn>>
    /\ UNCHANGED <<cvars, uvars, chatvars>>

\* milvus_manager.insert_data(data), lines 142-191
MigrateInsertData ==
    /\ mpc = "insert"
    /\ IF ~handle THEN
           /\ Failed
           /\ UNCHANGED collection
       ELSE
           \/ /\ collection' =
                    [collection EXCEPT !.rows =
                        @ \o [i \in 1..Len(export) |-> Row(export[i])]]
              /\ mpc' = "verify"
           \/ /\ Failed
              /\ UNCHANGED collection
    /\ UNCHANGED <<export, handle, mconn>>
    /\ UNCHANGED <<cvars, uvars, chatvars>>

\* get_collection_stats() and the test search, lines 278-287
MigrateVerify ==
    /\ mpc = "verify"
    /\ \/ mpc' = "finally"
       \/ Failed
    /\ UNCHANGED <<export, collection, handle, mconn>>
    /\ UNCHANGED <<cvars, uvars, chatvars>>

\* milvus_manager.disconnect() in the finally block, lines 243-246, 292-293
MigrateDisconnect ==
    /\ mpc \in {"finally", "finally_raise"}
    /\ mconn' = FALSE
    /\ mpc' = IF mpc = "finally" THEN "done" ELSE "raised"
    /\ UNCHANGED <<export, collection, handle>>
    /\ UNCHANGED <<cvars, uvars, chatvars>>

MigrateNext ==
    \/ MigrateConnect
    \/ MigrateCreateCollection
    \/ MigrateLoadCollection
    \/ MigrateInsertData
    \/ MigrateVerify
    \/ MigrateDisconnect

SpecMigrate == MigrateInit /\ [][MigrateNext]_vars

\* the fields of a row other than its id and vector
RowMetadata(row) == [k \in DOMAIN row \ {"id", "embedding"} |-> row[k]]

\* C17: after migrate_from_pinecone completes without error, the collection
\* holds exactly one record per element of the export file and nothing
\* else, each with the element's id and vector and with the element's
\* metadata fields unchanged, no field missing and none added, whatever the
\* collection held before.
C17_CollectionEqualsExport ==
    mpc = "done" =>
        /\ collection.exists
        /\ Len(collection.rows) = Len(export)
        /\ \A i \in 1..Len(export) :
            /\ collection.rows[i].id = export[i].id
            /\ collection.rows[i].embedding = export[i].values
            /\ RowMetadata(collection.rows[i]) = export[i].metadata

----------------------------------------------------------------------------

Init == ChunkInit \/ UploadInit \/ RetrieveInit \/ ChatInit \/ MigrateInit

Next == ChunkNext \/ UploadNext \/ RetrieveNext \/ ChatNext \/ MigrateNext

Spec == Init /\ [][Next]_vars

====
